---- MODULE Spec2Model ----
(***************************************************************************)
(* The FDC demo dapp: the Fdc workflow component (form, five-step          *)
(* sequencer, wagmi hooks, effects), the DA Layer retrieval helpers of     *)
(* lib/fdcUtils.ts, the string helpers of lib/utils and the clipboard      *)
(* helper of lib/clipboard.ts.                                             *)
(*                                                                         *)
(* Every `await` of the source is a point where other handlers may run,    *)
(* so each action below is the synchronous code between two awaits.        *)
(* React effects run right after the commit that changed their             *)
(* dependencies and before any other handler: while an effect is pending   *)
(* no other action is enabled.                                             *)
(***************************************************************************)
EXTENDS Integers, Sequences, FiniteSets, TLC

VARIABLES
    hydrated,       \* isHydrated
    connected,      \* useAccount().isConnected
    addr,           \* useFdcContracts(): "loading" | "loaded" | "failed"
    formInput,      \* content of the transactionId field at the last submit
    formError,      \* formState.errors.transactionId is set
    isLoading,
    error,
    success,
    steps,          \* step id -> [status, msg, err]
    cad,            \* currentAttestationData: NoCad or [ver, abi]
    verificationResult,
    proofData,
    wHash,          \* useWriteIFdcHubRequestAttestation().data
    writeError,     \* useWriteIFdcHubRequestAttestation().error: NoError or the error's identity
    rcpt,           \* useWaitForTransactionReceipt: "none" | "pending" | "success" | "failed"
    successDeps,    \* dependencies seen by the last run of the transaction-success effect
    writeErrDeps,   \* dependency seen by the last run of the write-error effect
    exec,           \* the running executeFdcWorkflow call: [pc, abi]
    cont,           \* slot -> a continueWorkflowAfterSubmission call
    retr,           \* slot -> a retrieveDataAndProofWithRetry call
    verifierReq,    \* transactionId of the last request sent to the verifier, or NoReq
    reqInput,       \* the field content that request was made for
    feeRead,        \* this run's getRequestFee read: NoFeeRead or [abi, result]
    sentTx,         \* this run's transaction handed to the wallet: NoTx or [abi, value]
    hist,           \* what the outside world has answered in this run (record of flags)
    hexIn, hexOut,  \* argument and result of the last toHex call
    trunc,          \* the last truncateString call: its arguments and result
    clip            \* a copyToClipboardWithTimeout call, its setter calls and the clock

wfVars == <<hydrated, connected, addr, formInput, formError, isLoading, error,
            success, steps, cad, verificationResult, proofData, wHash,
            writeError, rcpt, successDeps, writeErrDeps, exec, cont,
            verifierReq, reqInput, feeRead, sentTx, hist>>
fnVars == <<hexIn, hexOut, trunc, clip>>
vars == <<wfVars, retr, fnVars>>

Null == "null"
NoCad == [ver |-> 2, abi |-> Null]
NoError == Null
NoReq == <<>>
NoHex == <<>>
FeeReadThrew == -1
NoFeeRead == [abi |-> Null, result |-> FeeReadThrew]
NoTx == [abi |-> Null, value |-> FeeReadThrew]

(***************************************************************************)
(* Bounds of the model                                                     *)
(***************************************************************************)
MaxPad == 1          \* whitespace characters typed before / after the ID
MaxConts == 2        \* continuation calls the model keeps apart
MaxAttempts == 3     \* largest `attempts` argument of a direct retry call
MaxHexPrefix == 2    \* free characters at the start of a toHex argument
MaxHexRun == 34      \* repeated characters at the end of a toHex argument
MaxTextLen == 22     \* longest text given to truncateString
MaxCut == 3          \* largest startLength / endLength given explicitly
MaxMin == 2          \* largest minLength given explicitly
MaxTimeout == 3      \* largest `timeout` (ms) given explicitly to the clipboard helper
MaxWriteTime == 2    \* longest time (ms) navigator.clipboard.writeText takes

(***************************************************************************)
(* Program constants                                                       *)
(***************************************************************************)
TxIdLen == 64
DefaultAttempts == 10
FinalizationSleep == 30000
PollSleep == 10000
RetrySleep == 20000
HexPadLen == 64
\* BigInt('1000000000000000000') wei, counted in gwei (10^9 wei)
FallbackRequestFee == 1000000000

Max(a, b) == IF a >= b THEN a ELSE b

(***************************************************************************)
(* The form: FdcFormDataSchema and String.prototype.trim                   *)
(***************************************************************************)
HexChars == {"0", "9", "a", "f", "A", "F"}
WhitespaceChars == {" ", "\t"}

IsWhitespace(c) == c \in WhitespaceChars

RECURSIVE TrimStart(_)
TrimStart(s) ==
    IF s # <<>> /\ IsWhitespace(Head(s)) THEN TrimStart(Tail(s)) ELSE s

RECURSIVE TrimEnd(_)
TrimEnd(s) ==
    IF s # <<>> /\ IsWhitespace(s[Len(s)])
    THEN TrimEnd(SubSeq(s, 1, Len(s) - 1))
    ELSE s

\* val.trim()
Trim(s) == TrimEnd(TrimStart(s))

\* /^[A-F0-9]{64}$/i.test(v)
TxIdRegex(v) == Len(v) = TxIdLen /\ \A i \in 1..Len(v) : v[i] \in HexChars

\* z.string().min(1, ...).refine(val => regex.test(val.trim()), ...)
SchemaValid(val) == Len(val) >= 1 /\ TxIdRegex(Trim(val))

\* The field contents the model types in: 64 hexadecimal characters with
\* whitespace around them or one character replaced, 63 characters (alone or
\* after whitespace, which makes 64 and more in all), 65 characters, only
\* whitespace, and the empty field.
HexPattern == <<"A", "f", "0", "9", "a", "F">>
HexRun(n) == [i \in 1..n |-> HexPattern[((i - 1) % 6) + 1]]
Spaces(n) == [i \in 1..n |-> IF i % 2 = 1 THEN " " ELSE "\t"]
Spoil(s, kind) ==
    CASE kind = "first" -> [s EXCEPT ![1] = "g"]
      [] kind = "last" -> [s EXCEPT ![Len(s)] = "x"]
      [] kind = "inner" -> [s EXCEPT ![Len(s) \div 2] = " "]
FormInputs ==
    { Spaces(l) \o HexRun(TxIdLen) \o Spaces(t) : l \in 0..MaxPad, t \in 0..MaxPad }
    \cup { Spaces(l) \o HexRun(TxIdLen - 1) : l \in 0..MaxPad }
    \cup { HexRun(TxIdLen + 1) }
    \cup { Spoil(HexRun(TxIdLen), k) : k \in {"first", "last", "inner"} }
    \cup { Spaces(l) : l \in 0..MaxPad }

(***************************************************************************)
(* Steps                                                                   *)
(***************************************************************************)
StepOrder == <<"prepare-request", "submit-request", "wait-finalization",
               "prepare-proof", "verify-data">>
StepIds == {StepOrder[i] : i \in 1..Len(StepOrder)}

InitialSteps == [id \in StepIds |-> [status |-> "pending", msg |-> Null, err |-> Null]]

\* updateStepStatus(stepId, status, data, error)
updateStepStatus(st, stepId, status, msg, err) ==
    [st EXCEPT ![stepId] = [status |-> status, msg |-> msg, err |-> err]]

\* setSteps(prev => prev.map(step => ({ ...step, status: 'pending' })))
ResetSteps(st) == [id \in StepIds |-> [st[id] EXCEPT !.status = "pending"]]

(***************************************************************************)
(* The DA Layer: answers to postRequestToDALayer                           *)
(***************************************************************************)
ProofKinds == {"array", "none", "scalar"}

\* A JSON body: `response` truthy or not, `proof` an array, absent or some
\* other truthy value, and (for a body with both) whether
\* response.responseBody carries the six numeric fields the component requires.
DaBodies ==
    { [response |-> r, proof |-> p, fields |-> f] :
        r \in BOOLEAN, p \in ProofKinds, f \in BOOLEAN }
NoBody == [response |-> FALSE, proof |-> "none", fields |-> FALSE]

\* fetch rejects (or response.json() does); !response.ok; an OK answer
NoAnswer == [kind |-> "none", body |-> NoBody]
NoErr == [msg |-> Null, n |-> 0]

DaAnswers ==
    {[kind |-> "reject", body |-> NoBody], [kind |-> "notok", body |-> NoBody]}
    \cup { [kind |-> "ok", body |-> b] :
             b \in {x \in DaBodies : x.fields => (x.response /\ x.proof = "array")} }

\* (the test without Array.isArray)
HasProofAnyTruthy(b) == b.response /\ b.proof # "none"

\* proof.response && proof.proof && Array.isArray(proof.proof)
HasProof(b) == b.response /\ b.proof # "none" /\ b.proof = "array"

(***************************************************************************)
(* retrieveDataAndProof / retrieveDataAndProofWithRetry                    *)
(***************************************************************************)
IdleCall ==
    [pc |-> "idle", attempts |-> 0, i |-> 0, started |-> 0, threw |-> 0,
     requested |-> FALSE, reqs |-> 0, slept |-> <<>>, gap |-> <<>>, before |-> <<>>,
     last |-> NoAnswer, result |-> NoBody, err |-> NoErr]

\* retrieveDataAndProof up to its first await: sleep(30000) is running.
\* `slept` are the sleeps ended since the attempt started or sent its last
\* request, `gap` those between the last request and the one before (or the
\* start of the attempt), `before` those between the previous attempt's last
\* answer and this attempt.
AttemptStart(c) ==
    [c EXCEPT !.pc = "finalize", !.started = c.started + 1, !.reqs = 0,
              !.before = c.slept, !.slept = <<>>, !.gap = <<>>, !.last = NoAnswer]

RetryGiveUp(c) ==
    [c EXCEPT !.pc = "thrown",
              !.err = [msg |-> "Failed to retrieve data and proofs after n attempts",
                       n |-> c.attempts]]

\* (the loop test with <= for <)
LoopTestOffByOne(c) == c.i <= c.attempts

\* i < attempts
LoopTest(c) == c.i < c.attempts

\* the head of the for loop: another attempt, or the final throw
RetryLoop(c) == IF LoopTest(c) THEN AttemptStart(c) ELSE RetryGiveUp(c)

\* attempts: number = 10
AttemptsArgument(given, attempts) == IF given THEN attempts ELSE DefaultAttempts

\* retrieveDataAndProofWithRetry(url, request, roundId, apiKey, attempts)
RetryEnter(attempts) == RetryLoop([IdleCall EXCEPT !.attempts = attempts])

\* (the request sent without awaiting the sleep before it)
SendWithoutSleep(c, ms) ==
    [c EXCEPT !.pc = "fetch", !.gap = c.slept, !.slept = <<>>,
              !.requested = TRUE, !.reqs = IF c.reqs < 2 THEN c.reqs + 1 ELSE 2]

\* a sleep of ms has ended and postRequestToDALayer sends the request
SendAfterSleep(c, ms) ==
    [c EXCEPT !.pc = "fetch", !.gap = Append(c.slept, ms), !.slept = <<>>,
              !.requested = TRUE, !.reqs = IF c.reqs < 2 THEN c.reqs + 1 ELSE 2]

\* await sleep(30000) has ended; sleep(10000) starts
RetrSleepFinalizeDone(s) ==
    /\ retr[s].pc = "finalize"
    /\ retr' = [retr EXCEPT ![s] = [@ EXCEPT !.pc = "settle",
                                             !.slept = Append(@, FinalizationSleep)]]

\* await sleep(10000) before the first request has ended
RetrSleepSettleDone(s) ==
    /\ retr[s].pc = "settle"
    /\ retr' = [retr EXCEPT ![s] = SendAfterSleep(@, PollSleep)]

\* await sleep(10000) inside the while loop has ended
RetrSleepPollDone(s) ==
    /\ retr[s].pc = "poll"
    /\ retr' = [retr EXCEPT ![s] = SendAfterSleep(@, PollSleep)]

\* (an attempt that keeps polling after an answer that is not OK)
AnswerPollsAfterError(c, a) ==
    IF a.kind = "ok" /\ HasProof(a.body)
    THEN [c EXCEPT !.pc = "returned", !.last = a, !.result = a.body]
    ELSE [c EXCEPT !.pc = "poll", !.last = a]

\* the answer to a DA Layer request: the attempt throws into the wrapper's
\* catch (sleep(20000) starts), returns the body, or sleeps to poll again
Answer(c, a) ==
    IF a.kind # "ok"
    THEN [c EXCEPT !.pc = "backoff", !.last = a, !.threw = c.threw + 1,
                   !.err = [msg |-> IF a.kind = "notok" THEN "DA Layer request failed"
                                                        ELSE "fetch rejected",
                            n |-> 0]]
    ELSE IF HasProof(a.body)
         THEN [c EXCEPT !.pc = "returned", !.last = a, !.result = a.body]
         ELSE [c EXCEPT !.pc = "poll", !.last = a]

RetrFetchDone(s) ==
    /\ retr[s].pc = "fetch"
    /\ \E a \in DaAnswers : retr' = [retr EXCEPT ![s] = Answer(@, a)]

\* await sleep(20000) in the catch has ended: i++ and the loop test
RetrSleepBackoffDone(s) ==
    /\ retr[s].pc = "backoff"
    /\ retr' = [retr EXCEPT ![s] =
                  RetryLoop([@ EXCEPT !.i = @ + 1, !.slept = Append(@, RetrySleep)])]

RetrStep(s) ==
    \/ RetrSleepFinalizeDone(s)
    \/ RetrSleepSettleDone(s)
    \/ RetrSleepPollDone(s)
    \/ RetrFetchDone(s)
    \/ RetrSleepBackoffDone(s)

(***************************************************************************)
(* The outside world of the workflow                                       *)
(***************************************************************************)
AbiRequests == {"abiA", "abiB"}

\* what getRequestFee may return, in gwei
Fees == {0, 500000000}

NoHist ==
    [verifierAnswered |-> FALSE, txConfirmed |-> FALSE, roundIdKnown |-> FALSE,
     daComplete |-> FALSE, verifyReturned |-> FALSE, verifyThrew |-> FALSE,
     opFailed |-> FALSE]

Slots == 1..MaxConts

IdleCont == [pc |-> "idle", abi |-> Null, body |-> NoBody]

IdleExec == [pc |-> "idle", abi |-> Null]

(***************************************************************************)
(* Effects                                                                 *)
(***************************************************************************)
\* [isAttestationSuccess, receipt, currentAttestationData, attestationHash,
\*  continueWorkflowAfterSubmission]; the callback is made anew whenever
\* fdcAddresses or currentAttestationData change
\* (the dependency list without isAttestationSuccess and receipt)
SuccessDepsWithoutReceipt ==
    <<FALSE, Null, cad, wHash, <<addr = "loaded", cad>> >>

SuccessDeps ==
    <<rcpt = "success", IF rcpt = "success" THEN wHash ELSE Null, cad, wHash,
      <<addr = "loaded", cad>> >>

SuccessEffectPending == SuccessDeps # successDeps
WriteErrEffectPending == writeError # writeErrDeps
EffectPending == SuccessEffectPending \/ WriteErrEffectPending

\* (the button without its isLoading test)
ButtonIgnoresLoading ==
    \/ ~hydrated
    \/ ~connected
    \/ addr = "loading"
    \/ addr = "failed"

\* disabled={isLoading || !isHydrated || !isConnected || isLoadingAddresses || !!addressError}
ButtonDisabled ==
    \/ isLoading
    \/ ~hydrated
    \/ ~connected
    \/ addr = "loading"
    \/ addr = "failed"

(***************************************************************************)
(* Mount, wallet connection, contract addresses                            *)
(***************************************************************************)
\* useEffect(() => setIsHydrated(true), [])
Hydrate ==
    /\ ~EffectPending
    /\ ~hydrated
    /\ hydrated' = TRUE
    /\ UNCHANGED <<connected, addr, formInput, formError, isLoading, error,
                   success, steps, cad, verificationResult, proofData, wHash,
                   writeError, rcpt, successDeps, writeErrDeps, exec, cont,
                   verifierReq, reqInput, feeRead, sentTx, hist, retr, fnVars>>

\* the user connects or disconnects the wallet
ToggleWallet ==
    /\ ~EffectPending
    /\ connected' = ~connected
    /\ UNCHANGED <<hydrated, addr, formInput, formError, isLoading, error,
                   success, steps, cad, verificationResult, proofData, wHash,
                   writeError, rcpt, successDeps, writeErrDeps, exec, cont,
                   verifierReq, reqInput, feeRead, sentTx, hist, retr, fnVars>>

\* fetchAddresses() of useFdcContracts settles
AddressesSettle ==
    /\ ~EffectPending
    /\ addr = "loading"
    /\ addr' \in {"loaded", "failed"}
    /\ UNCHANGED <<hydrated, connected, formInput, formError, isLoading, error,
                   success, steps, cad, verificationResult, proofData, wHash,
                   writeError, rcpt, successDeps, writeErrDeps, exec, cont,
                   verifierReq, reqInput, feeRead, sentTx, hist, retr, fnVars>>

(***************************************************************************)
(* handleSubmit(executeFdcWorkflow)                                        *)
(***************************************************************************)
\* the resolver rejects the field: executeFdcWorkflow is not called
SubmitInvalid ==
    /\ ~EffectPending
    /\ ~ButtonDisabled
    /\ \E input \in FormInputs :
        /\ ~SchemaValid(input)
        /\ formInput' = input
    /\ formError' = TRUE
    /\ UNCHANGED <<hydrated, connected, addr, isLoading, error,
                   success, steps, cad, verificationResult, proofData, wHash,
                   writeError, rcpt, successDeps, writeErrDeps, exec, cont,
                   verifierReq, reqInput, feeRead, sentTx, hist, retr, fnVars>>

\* (the field sent as typed)
SentUntrimmed(input) == input

\* const transactionId = data.transactionId.trim()
SentTransactionId(input) == Trim(input)

\* executeFdcWorkflow up to the first fetch of prepareRequest
SubmitValid ==
    /\ ~EffectPending
    /\ ~ButtonDisabled
    /\ \E input \in FormInputs :
        /\ SchemaValid(input)
        /\ formInput' = input
        /\ formError' = FALSE
        /\ IF addr # "loaded"
           THEN /\ error' = IF addr = "loading"
                            THEN "FDC contract addresses not loaded. Please wait and try again."
                            ELSE "Error loading contract addresses"
                /\ UNCHANGED <<isLoading, success, steps, exec, verifierReq, reqInput,
                               hist, feeRead, sentTx>>
           ELSE IF ~connected
           THEN /\ error' = "Please connect your wallet to submit attestation requests to the blockchain."
                /\ UNCHANGED <<isLoading, success, steps, exec, verifierReq, reqInput,
                               hist, feeRead, sentTx>>
           ELSE /\ isLoading' = TRUE
                /\ error' = Null
                /\ success' = Null
                /\ steps' = updateStepStatus(ResetSteps(steps), "prepare-request",
                                             "in_progress", Null, Null)
                /\ verifierReq' = SentTransactionId(input)
                /\ reqInput' = input
                \* what is recorded about the outside world is about this run
                /\ hist' = NoHist
                /\ feeRead' = NoFeeRead
                /\ sentTx' = NoTx
                /\ exec' = [pc |-> "fetchRequest", abi |-> Null]
    /\ UNCHANGED <<hydrated, connected, addr, cad, verificationResult, proofData,
                   wHash, writeError, rcpt, successDeps, writeErrDeps, cont,
                   retr, fnVars>>

\* the catch of prepareRequest and then the catch of executeFdcWorkflow
PrepareFails(msg) ==
    /\ steps' = updateStepStatus(steps, "prepare-request", "error", Null, msg)
    /\ error' = msg
    /\ isLoading' = FALSE
    /\ exec' = IdleExec
    /\ hist' = [hist EXCEPT !.opFailed = TRUE]
    /\ UNCHANGED <<cad, verifierReq, feeRead, wHash, writeError, rcpt, sentTx>>

\* the answer of .../Payment/prepareRequest
ExecFetchRequestDone ==
    /\ ~EffectPending
    /\ exec.pc = "fetchRequest"
    /\ \E outcome \in {"ok", "notok", "reject"} :
        CASE outcome = "ok" ->
                /\ exec' = [exec EXCEPT !.pc = "json"]
                /\ UNCHANGED <<steps, error, isLoading, cad, verifierReq, feeRead,
                               wHash, writeError, rcpt, sentTx, hist>>
          [] outcome = "notok" ->
                \* the fallback request to .../Payment/prepareResponse, same body
                /\ exec' = [exec EXCEPT !.pc = "fetchResponse"]
                /\ verifierReq' = SentTransactionId(reqInput)
                /\ UNCHANGED <<steps, error, isLoading, cad, feeRead,
                               wHash, writeError, rcpt, sentTx, hist>>
          [] outcome = "reject" -> PrepareFails("fetch rejected")
    /\ UNCHANGED <<hydrated, connected, addr, formInput, formError, success,
                   verificationResult, proofData, successDeps, writeErrDeps,
                   cont, reqInput, retr, fnVars>>

\* the answer of .../Payment/prepareResponse
ExecFetchResponseDone ==
    /\ ~EffectPending
    /\ exec.pc = "fetchResponse"
    /\ \E outcome \in {"ok", "notok", "reject"} :
        CASE outcome = "ok" ->
                /\ exec' = [exec EXCEPT !.pc = "json"]
                /\ UNCHANGED <<steps, error, isLoading, cad, verifierReq, feeRead,
                               wHash, writeError, rcpt, sentTx, hist>>
          [] outcome = "notok" -> PrepareFails("HTTP error! status")
          [] outcome = "reject" -> PrepareFails("fetch rejected")
    /\ UNCHANGED <<hydrated, connected, addr, formInput, formError, success,
                   verificationResult, proofData, successDeps, writeErrDeps,
                   cont, reqInput, retr, fnVars>>

\* response.json() settles; with an abiEncodedRequest prepareRequest returns
\* and executeFdcWorkflow goes on to the getRequestFee read of
\* submitAttestationRequestWithWagmi
ExecJsonDone ==
    /\ ~EffectPending
    /\ exec.pc = "json"
    /\ \E data \in AbiRequests \cup {"missing", "reject"} :
        CASE data \in AbiRequests ->
                /\ steps' = updateStepStatus(
                              updateStepStatus(steps, "prepare-request", "completed",
                                               data, Null),
                              "submit-request", "in_progress", Null, Null)
                \* a new object, never identical to the one it replaces
                /\ cad' = [ver |-> IF cad = NoCad THEN 0 ELSE 1 - cad.ver, abi |-> data]
                /\ exec' = [pc |-> "fee", abi |-> data]
                /\ hist' = [hist EXCEPT !.verifierAnswered = TRUE]
                /\ UNCHANGED <<error, isLoading, verifierReq, feeRead, wHash,
                               writeError, rcpt, sentTx>>
          [] data = "missing" -> PrepareFails("API response missing abiEncodedRequest")
          [] data = "reject" -> PrepareFails("json rejected")
    /\ UNCHANGED <<hydrated, connected, addr, formInput, formError, success,
                   verificationResult, proofData, successDeps, writeErrDeps,
                   cont, reqInput, retr, fnVars>>

\* (the fallback fee used whatever the read returned)
FeeAlwaysFallback(result) == FallbackRequestFee

\* requestFee: what the read returned, or 1 FLR when the read threw
RequestFee(result) == IF result = FeeReadThrew THEN FallbackRequestFee ELSE result

\* the getRequestFee read settles and requestAttestationAsync is called:
\* the mutation starts over (data and error are cleared)
ExecFeeDone ==
    /\ ~EffectPending
    /\ exec.pc = "fee"
    /\ \E result \in Fees \cup {FeeReadThrew} :
        /\ feeRead' = [abi |-> exec.abi, result |-> result]
        /\ sentTx' = [abi |-> exec.abi, value |-> RequestFee(result)]
    /\ exec' = [exec EXCEPT !.pc = "wallet"]
    /\ wHash' = Null
    /\ writeError' = NoError
    /\ rcpt' = "none"
    /\ UNCHANGED <<hydrated, connected, addr, formInput, formError, isLoading,
                   error, success, steps, cad, verificationResult, proofData,
                   successDeps, writeErrDeps, cont, verifierReq, reqInput, hist,
                   retr, fnVars>>

\* requestAttestationAsync settles: a transaction hash, or the wallet's error
\* (the catch of executeFdcWorkflow)
ExecWalletDone ==
    /\ ~EffectPending
    /\ exec.pc = "wallet"
    /\ \E outcome \in {"hash", "reject"} :
        CASE outcome = "hash" ->
                /\ wHash' = IF sentTx.abi = "abiA" THEN "txA" ELSE "txB"
                /\ rcpt' = "pending"
                /\ UNCHANGED <<writeError, error, isLoading, hist>>
          [] outcome = "reject" ->
                \* a new Error object, never identical to the last one seen
                /\ writeError' = IF writeErrDeps = "errA" THEN "errB" ELSE "errA"
                /\ error' = "User rejected the request"
                /\ isLoading' = FALSE
                /\ hist' = [hist EXCEPT !.opFailed = TRUE]
                /\ UNCHANGED <<wHash, rcpt>>
    /\ exec' = IdleExec
    /\ UNCHANGED <<hydrated, connected, addr, formInput, formError, success,
                   steps, cad, verificationResult, proofData, successDeps,
                   writeErrDeps, cont, verifierReq, reqInput, feeRead, sentTx,
                   retr, fnVars>>

(***************************************************************************)
(* useWaitForTransactionReceipt({ hash: attestationHash })                 *)
(***************************************************************************)
\* the receipt of the attestation transaction arrives
ReceiptArrives ==
    /\ ~EffectPending
    /\ rcpt = "pending"
    /\ rcpt' = "success"
    /\ hist' = [hist EXCEPT !.txConfirmed = TRUE]
    /\ UNCHANGED <<hydrated, connected, addr, formInput, formError, isLoading,
                   error, success, steps, cad, verificationResult, proofData,
                   wHash, writeError, successDeps, writeErrDeps, exec, cont,
                   verifierReq, reqInput, feeRead, sentTx, retr, fnVars>>

\* waiting for the receipt fails (the query ends in error)
ReceiptFails ==
    /\ ~EffectPending
    /\ rcpt = "pending"
    /\ rcpt' = "failed"
    /\ UNCHANGED <<hydrated, connected, addr, formInput, formError, isLoading,
                   error, success, steps, cad, verificationResult, proofData,
                   wHash, writeError, successDeps, writeErrDeps, exec, cont,
                   verifierReq, reqInput, feeRead, sentTx, hist, retr, fnVars>>

(***************************************************************************)
(* continueWorkflowAfterSubmission                                         *)
(***************************************************************************)
FreeSlots == {s \in Slots : cont[s].pc = "idle"}
FirstFree == CHOOSE s \in FreeSlots : \A t \in FreeSlots : s <= t

\* the catch of continueWorkflowAfterSubmission
ContinuationFails(s, msg) ==
    /\ error' = msg
    /\ cont' = [cont EXCEPT ![s] = [@ EXCEPT !.pc = "done"]]
    /\ hist' = [hist EXCEPT !.opFailed = TRUE]

\* "Handle transaction success": the effect runs when a dependency changed;
\* with a receipt it completes submit-request and calls
\* continueWorkflowAfterSubmission(receipt), which runs up to the first
\* await of calculateRoundId
SuccessEffect ==
    /\ SuccessEffectPending
    /\ successDeps' = SuccessDeps
    /\ IF rcpt = "success" /\ cad # NoCad
       THEN /\ FreeSlots # {}
            /\ LET s == FirstFree
                   st == updateStepStatus(
                           updateStepStatus(steps, "submit-request", "completed",
                             "Attestation request submitted successfully to FdcHub contract",
                             Null),
                           "wait-finalization", "in_progress", Null, Null)
               IN /\ steps' = st
                  /\ IF addr # "loaded"
                     THEN /\ error' = "Missing required data for round ID calculation"
                          /\ cont' = [cont EXCEPT ![s] = [pc |-> "done", abi |-> cad.abi,
                                                          body |-> NoBody]]
                          /\ hist' = [hist EXCEPT !.opFailed = TRUE]
                     ELSE /\ cont' = [cont EXCEPT ![s] = [pc |-> "roundId", abi |-> cad.abi,
                                                          body |-> NoBody]]
                          /\ UNCHANGED <<error, hist>>
       ELSE UNCHANGED <<steps, error, cont, hist>>
    /\ UNCHANGED <<hydrated, connected, addr, formInput, formError, isLoading,
                   success, cad, verificationResult, proofData, wHash, writeError,
                   rcpt, writeErrDeps, exec, verifierReq, reqInput, feeRead,
                   sentTx, retr, fnVars>>

\* "Handle write contract errors"
WriteErrorEffect ==
    /\ ~SuccessEffectPending
    /\ WriteErrEffectPending
    /\ writeErrDeps' = writeError
    /\ IF writeError # NoError
       THEN /\ steps' = updateStepStatus(steps, "submit-request", "error", Null,
                                         "User rejected the request")
            /\ error' = "Transaction failed: User rejected the request"
       ELSE UNCHANGED <<steps, error>>
    /\ UNCHANGED <<hydrated, connected, addr, formInput, formError, isLoading,
                   success, cad, verificationResult, proofData, wHash, writeError,
                   rcpt, successDeps, exec, cont, verifierReq, reqInput, feeRead,
                   sentTx, hist, retr, fnVars>>

\* calculateRoundId settles (its reads of the block and of FlareSystemsManager);
\* then the 30 s wait for finalization starts
ContRoundIdDone(s) ==
    /\ ~EffectPending
    /\ cont[s].pc = "roundId"
    /\ \E ok \in BOOLEAN :
        IF ok
        THEN /\ steps' = updateStepStatus(steps, "wait-finalization", "in_progress",
                                          "Waiting for voting round to be finalized...", Null)
             /\ cont' = [cont EXCEPT ![s] = [@ EXCEPT !.pc = "finalize"]]
             /\ hist' = [hist EXCEPT !.roundIdKnown = TRUE]
             /\ UNCHANGED error
        ELSE /\ ContinuationFails(s, "calculateRoundId failed")
             /\ UNCHANGED steps
    /\ UNCHANGED <<hydrated, connected, addr, formInput, formError, isLoading,
                   success, cad, verificationResult, proofData, wHash, writeError,
                   rcpt, successDeps, writeErrDeps, exec, verifierReq, reqInput,
                   feeRead, sentTx, retr, fnVars>>

\* the 30 s timeout has ended: wait-finalization is completed, prepare-proof
\* starts and retrievePaymentDataAndProofWithRetry is called (10 attempts)
ContFinalizeDone(s) ==
    /\ ~EffectPending
    /\ cont[s].pc = "finalize"
    /\ steps' = updateStepStatus(
                  updateStepStatus(steps, "wait-finalization", "completed",
                                   "Voting round finalized", Null),
                  "prepare-proof", "in_progress", Null, Null)
    /\ cont' = [cont EXCEPT ![s] = [@ EXCEPT !.pc = "retrieve"]]
    /\ retr' = [retr EXCEPT ![s] = RetryEnter(AttemptsArgument(FALSE, 0))]
    /\ UNCHANGED <<hydrated, connected, addr, formInput, formError, isLoading,
                   error, success, cad, verificationResult, proofData, wHash,
                   writeError, rcpt, successDeps, writeErrDeps, exec, verifierReq,
                   reqInput, feeRead, sentTx, hist, fnVars>>

\* a step of the retrieval call a continuation is waiting for
ContRetrieveStep(s) ==
    /\ ~EffectPending
    /\ cont[s].pc = "retrieve"
    /\ RetrStep(s)
    /\ hist' = IF retr'[s].pc = "returned" /\ retr'[s].result.fields
               THEN [hist EXCEPT !.daComplete = TRUE] ELSE hist
    /\ UNCHANGED <<hydrated, connected, addr, formInput, formError, isLoading,
                   error, success, steps, cad, verificationResult, proofData,
                   wHash, writeError, rcpt, successDeps, writeErrDeps, exec, cont,
                   verifierReq, reqInput, feeRead, sentTx, fnVars>>

\* retrievePaymentDataAndProofWithRetry has thrown
ContRetrieveThrown(s) ==
    /\ ~EffectPending
    /\ cont[s].pc = "retrieve"
    /\ retr[s].pc = "thrown"
    /\ ContinuationFails(s, retr[s].err.msg)
    /\ retr' = [retr EXCEPT ![s] = IdleCall]
    /\ UNCHANGED <<hydrated, connected, addr, formInput, formError, isLoading,
                   success, steps, cad, verificationResult, proofData, wHash,
                   writeError, rcpt, successDeps, writeErrDeps, exec, verifierReq,
                   reqInput, feeRead, sentTx, fnVars>>

\* (the test of the required fields inverted)
RequiredFieldPresent(proof) == proof.fields

\* the loop over requiredFields: a field of responseBody is undefined or null
RequiredFieldMissing(proof) == ~proof.fields

\* retrievePaymentDataAndProofWithRetry has returned: prepare-proof is
\* completed, verify-data starts, the proof is validated and verifyPayment
\* issues its read
ContRetrieveReturned(s) ==
    /\ ~EffectPending
    /\ cont[s].pc = "retrieve"
    /\ retr[s].pc = "returned"
    /\ LET proof == retr[s].result IN
        /\ proofData' = proof
        /\ steps' = updateStepStatus(
                      updateStepStatus(steps, "prepare-proof", "completed",
                                       "Proof retrieved from Data Availability Layer", Null),
                      "verify-data", "in_progress", Null, Null)
        /\ IF addr # "loaded"
           THEN ContinuationFails(s, "FDC contract addresses not loaded")
           ELSE IF ~proof.response \/ proof.proof = "none"
           THEN ContinuationFails(s, "Proof data is incomplete")
           ELSE IF RequiredFieldMissing(proof)
           THEN ContinuationFails(s, "Proof data is missing required field")
           ELSE /\ cont' = [cont EXCEPT ![s] = [@ EXCEPT !.pc = "verify", !.body = proof]]
                /\ UNCHANGED <<error, hist>>
    /\ retr' = [retr EXCEPT ![s] = IdleCall]
    /\ UNCHANGED <<hydrated, connected, addr, formInput, formError, isLoading,
                   success, cad, verificationResult, wHash, writeError, rcpt,
                   successDeps, writeErrDeps, exec, verifierReq, reqInput,
                   feeRead, sentTx, fnVars>>

\* the verifyPayment read settles: whatever value it returns, verify-data is
\* completed and the success message is set
ContVerifyDone(s) ==
    /\ ~EffectPending
    /\ cont[s].pc = "verify"
    /\ cont' = [cont EXCEPT ![s] = [@ EXCEPT !.pc = "done"]]
    /\ \E result \in {"true", "false", "throw"} :
        IF result = "throw"
        THEN /\ error' = "verifyPayment failed"
             /\ hist' = [hist EXCEPT !.verifyThrew = TRUE, !.opFailed = TRUE]
             /\ UNCHANGED <<verificationResult, steps, success>>
        ELSE /\ verificationResult' = result
             /\ hist' = [hist EXCEPT !.verifyReturned = TRUE]
             /\ steps' = updateStepStatus(steps, "verify-data", "completed",
                            "Payment attestation verified successfully", Null)
             /\ success' = "FDC workflow completed successfully! All steps have been executed."
             /\ UNCHANGED error
    /\ UNCHANGED <<hydrated, connected, addr, formInput, formError, isLoading,
                   cad, proofData, wHash, writeError, rcpt, successDeps,
                   writeErrDeps, exec, verifierReq, reqInput, feeRead, sentTx,
                   retr, fnVars>>

(***************************************************************************)
(* toHex of lib/utils                                                      *)
(***************************************************************************)
HexDigits == <<"0", "1", "2", "3", "4", "5", "6", "7",
               "8", "9", "a", "b", "c", "d", "e", "f">>

\* Number.prototype.toString(16) of a UTF-16 code unit
RECURSIVE ToString16(_)
ToString16(n) ==
    IF n < 16 THEN <<HexDigits[n + 1]>>
    ELSE ToString16(n \div 16) \o <<HexDigits[(n % 16) + 1]>>

\* (a padding that also cuts the string to the target length)
PadEndTruncating(str, targetLength, fill) ==
    [i \in 1..targetLength |-> IF i <= Len(str) THEN str[i] ELSE fill]

\* String.prototype.padEnd with a one-character fill: never shortens
PadEnd(str, targetLength, fill) ==
    IF Len(str) >= targetLength THEN str
    ELSE str \o [i \in 1..(targetLength - Len(str)) |-> fill]

\* the loop of toHex: result += data.charCodeAt(i).toString(16)
RECURSIVE CharCodesHex(_)
CharCodesHex(data) ==
    IF data = <<>> THEN <<>>
    ELSE ToString16(Head(data)) \o CharCodesHex(Tail(data))

toHex(data) == <<"0", "x">> \o PadEnd(CharCodesHex(data), HexPadLen, "0")

\* Arguments of toHex, as sequences of UTF-16 code units: a few free
\* characters followed by one character repeated.  NUL and line feed take one
\* hexadecimal digit, 'P' two, the euro sign four.
CharCodes == {0, 10, 80, 8364}
RECURSIVE SeqsUpTo(_, _)
SeqsUpTo(S, n) ==
    IF n = 0 THEN {<<>>}
    ELSE LET shorter == SeqsUpTo(S, n - 1)
         IN shorter \cup {Append(q, x) : q \in shorter, x \in S}
HexInputs ==
    { pre \o [i \in 1..n |-> c] :
        pre \in SeqsUpTo(CharCodes, MaxHexPrefix), n \in 0..MaxHexRun, c \in CharCodes }

ToHexCall ==
    /\ hexOut = NoHex
    /\ \E data \in HexInputs :
        /\ hexIn' = data
        /\ hexOut' = toHex(data)
    /\ UNCHANGED <<wfVars, retr, trunc, clip>>

(***************************************************************************)
(* truncateString of lib/utils                                             *)
(***************************************************************************)
DefaultStartLength == 10
DefaultEndLength == 10
DefaultMinLength == 20

\* an index argument of String.prototype.slice, made relative to the start:
\* a negative index counts from the end, and -0 is 0
SliceIndex(len, k) ==
    IF k < 0 THEN (IF len + k > 0 THEN len + k ELSE 0)
    ELSE (IF k < len THEN k ELSE len)

\* str.slice(from, to)
Slice(str, from, to) ==
    SubSeq(str, SliceIndex(Len(str), from) + 1, SliceIndex(Len(str), to))

\* str.slice(from)
SliceFrom(str, from) == Slice(str, from, Len(str))

truncateString(text, startLength, endLength, minLength) ==
    IF Len(text) <= minLength THEN text
    ELSE Slice(text, 0, startLength) \o <<".", ".", ".">> \o SliceFrom(text, 0 - endLength)

\* Arguments of truncateString: texts of distinct neighbouring characters of
\* every length up to MaxTextLen, and each number given explicitly or left
\* to its default.
Alphabet == <<"a", "b", "c", "d", "e", "f", "g", "h", "i", "j", "k", "l", "m",
              "n", "o", "p", "q", "r", "s", "t", "u", "v", "w", "x", "y", "z">>
Text(n) == [i \in 1..n |-> Alphabet[((i - 1) % 26) + 1]]
NoTrunc ==
    [called |-> FALSE, text |-> <<>>, startLength |-> 0, endLength |-> 0,
     minLength |-> 0, out |-> <<>>]

TruncateCall ==
    /\ ~trunc.called
    /\ \E n \in 0..MaxTextLen,
          startLength \in (0..MaxCut) \cup {DefaultStartLength},
          endLength \in (0..MaxCut) \cup {DefaultEndLength},
          minLength \in (0..MaxMin) \cup {DefaultMinLength} :
        trunc' = [called |-> TRUE, text |-> Text(n), startLength |-> startLength,
                  endLength |-> endLength, minLength |-> minLength,
                  out |-> truncateString(Text(n), startLength, endLength, minLength)]
    /\ UNCHANGED <<wfVars, retr, hexIn, hexOut, clip>>

(***************************************************************************)
(* copyToClipboardWithTimeout of lib/clipboard                             *)
(*                                                                         *)
(* `now` is the time in ms since the call.  A timer set with setTimeout    *)
(* runs its callback when the clock reaches its due time; the clock does   *)
(* not pass a due timer.                                                   *)
(***************************************************************************)
DefaultTimeout == 2000

ClipTexts == {"", "0xabc"}

NoClip ==
    [pc |-> "idle", text |-> "", given |-> FALSE, timeout |-> 0, now |-> 0,
     due |-> 0, resolved |-> FALSE, calls |-> <<>>]

\* timeout: number = 2000
TimeoutArgument(given, timeout) == IF given THEN timeout ELSE DefaultTimeout

\* (a timer counted from the call instead of from the end of the write)
DueFromCall(now, timeout) == timeout

\* setTimeout(cb, timeout) at time now
DueAt(now, timeout) == now + timeout

\* copyToClipboardWithTimeout(text, setter, timeout) up to its await
ClipCall ==
    /\ clip.pc = "idle"
    /\ \E text \in ClipTexts, given \in BOOLEAN, timeout \in 0..MaxTimeout :
        clip' = [NoClip EXCEPT !.pc = "writing", !.text = text, !.given = given,
                               !.timeout = TimeoutArgument(given, timeout)]
    /\ UNCHANGED <<wfVars, retr, hexIn, hexOut, trunc>>

\* await navigator.clipboard.writeText(text) resolves: setter(text),
\* setTimeout(() => setter(null), timeout), and the function returns
ClipWriteResolved ==
    /\ clip.pc = "writing"
    /\ clip' = [clip EXCEPT !.pc = "timer",
                            !.calls = Append(@, [isNull |-> FALSE, value |-> clip.text,
                                                 at |-> clip.now]),
                            !.due = DueAt(clip.now, clip.timeout),
                            !.resolved = TRUE]
    /\ UNCHANGED <<wfVars, retr, hexIn, hexOut, trunc>>

\* writeText rejects: the catch logs the error and the function returns
ClipWriteRejected ==
    /\ clip.pc = "writing"
    /\ clip' = [clip EXCEPT !.pc = "failed", !.resolved = TRUE]
    /\ UNCHANGED <<wfVars, retr, hexIn, hexOut, trunc>>

\* the timer's callback: setter(null)
ClipTimerFires ==
    /\ clip.pc = "timer"
    /\ clip.now >= clip.due
    /\ clip' = [clip EXCEPT !.pc = "reset",
                            !.calls = Append(@, [isNull |-> TRUE, value |-> "",
                                                 at |-> clip.now])]
    /\ UNCHANGED <<wfVars, retr, hexIn, hexOut, trunc>>

\* one millisecond passes
ClipTick ==
    /\ \/ clip.pc = "writing" /\ clip.now < MaxWriteTime
       \/ clip.pc = "timer" /\ clip.now < clip.due
       \/ clip.pc \in {"reset", "failed"} /\ clip.now < clip.due + 1
    /\ clip' = [clip EXCEPT !.now = @ + 1]
    /\ UNCHANGED <<wfVars, retr, hexIn, hexOut, trunc>>

ClipNext ==
    \/ ClipCall
    \/ ClipWriteResolved
    \/ ClipWriteRejected
    \/ ClipTimerFires
    \/ ClipTick

(***************************************************************************)
(* Specifications                                                          *)
(***************************************************************************)
InitWorkflow ==
    /\ hydrated = FALSE
    /\ connected = FALSE
    /\ addr = "loading"
    /\ formInput = <<>>
    /\ formError = FALSE
    /\ isLoading = FALSE
    /\ error = Null
    /\ success = Null
    /\ steps = InitialSteps
    /\ cad = NoCad
    /\ verificationResult = Null
    /\ proofData = NoBody
    /\ wHash = Null
    /\ writeError = NoError
    /\ rcpt = "none"
    /\ successDeps = <<FALSE, Null, NoCad, Null, <<FALSE, NoCad>> >>
    /\ writeErrDeps = NoError
    /\ exec = IdleExec
    /\ cont = [s \in Slots |-> IdleCont]
    /\ verifierReq = NoReq
    /\ reqInput = <<>>
    /\ feeRead = NoFeeRead
    /\ sentTx = NoTx
    /\ hist = NoHist

InitFn ==
    /\ hexIn = <<>>
    /\ hexOut = NoHex
    /\ trunc = NoTrunc
    /\ clip = NoClip

\* the component after its first render
Init ==
    /\ InitWorkflow
    /\ retr = [s \in Slots |-> IdleCall]
    /\ InitFn

Next ==
    \/ Hydrate
    \/ ToggleWallet
    \/ AddressesSettle
    \/ SubmitInvalid
    \/ SubmitValid
    \/ ExecFetchRequestDone
    \/ ExecFetchResponseDone
    \/ ExecJsonDone
    \/ ExecFeeDone
    \/ ExecWalletDone
    \/ ReceiptArrives
    \/ ReceiptFails
    \/ SuccessEffect
    \/ WriteErrorEffect
    \/ \E s \in Slots : ContRoundIdDone(s)
    \/ \E s \in Slots : ContFinalizeDone(s)
    \/ \E s \in Slots : ContRetrieveStep(s)
    \/ \E s \in Slots : ContRetrieveThrown(s)
    \/ \E s \in Slots : ContRetrieveReturned(s)
    \/ \E s \in Slots : ContVerifyDone(s)

Spec == Init /\ [][Next]_vars

\* every step but the user's (typing and submitting, connecting the wallet)
\* is taken once it can be: promises settle, timers fire, effects run
ProgramStep ==
    \/ Hydrate
    \/ AddressesSettle
    \/ ExecFetchRequestDone
    \/ ExecFetchResponseDone
    \/ ExecJsonDone
    \/ ExecFeeDone
    \/ ExecWalletDone
    \/ SuccessEffect
    \/ WriteErrorEffect
    \/ \E s \in Slots : ContRoundIdDone(s)
    \/ \E s \in Slots : ContFinalizeDone(s)
    \/ \E s \in Slots : ContRetrieveStep(s)
    \/ \E s \in Slots : ContRetrieveThrown(s)
    \/ \E s \in Slots : ContRetrieveReturned(s)
    \/ \E s \in Slots : ContVerifyDone(s)

FairSpec == Spec /\ WF_vars(ProgramStep)

\* retrieveDataAndProofWithRetry called on its own, with any `attempts` or
\* without the argument
InitRetry ==
    /\ InitWorkflow
    /\ \E given \in BOOLEAN, attempts \in -1..MaxAttempts :
        retr = [s \in Slots |-> IF s = 1
                                THEN RetryEnter(AttemptsArgument(given, attempts))
                                ELSE IdleCall]
    /\ InitFn

RetryStep ==
    /\ RetrStep(1)
    /\ UNCHANGED <<wfVars, fnVars>>

RetrySpec == InitRetry /\ [][RetryStep]_vars

\* every sleep ends and every request to the DA Layer is answered
RetryFairSpec == RetrySpec /\ WF_vars(RetryStep)

\* toHex called with any argument
HexSpec == Init /\ [][ToHexCall]_vars

\* truncateString called with any arguments
TruncSpec == Init /\ [][TruncateCall]_vars

\* the write settles, time passes and a due timer fires; the call itself is
\* the user's
ClipProgramStep ==
    \/ ClipWriteResolved
    \/ ClipWriteRejected
    \/ ClipTimerFires
    \/ ClipTick

\* copyToClipboardWithTimeout called once
ClipSpec == Init /\ [][ClipNext]_vars /\ WF_vars(ClipProgramStep)

(***************************************************************************)
(* Properties                                                              *)
(***************************************************************************)
StatusOf(i) == steps[StepOrder[i]].status
AllCompleted == \A i \in 1..Len(StepOrder) : StatusOf(i) = "completed"
NoContRunning == \A s \in Slots : cont[s].pc \in {"idle", "done"}

\* C1: a step that is in progress or completed has every earlier step of
\* prepare-request, submit-request, wait-finalization, prepare-proof,
\* verify-data completed.
C1_StepOrder ==
    \A i \in 1..Len(StepOrder) :
        StatusOf(i) \in {"in_progress", "completed"}
            => \A j \in 1..(i - 1) : StatusOf(j) = "completed"

C1_Witness == steps["verify-data"].status = "in_progress"

\* C2: once the verifier has answered with an abiEncodedRequest, the
\* transaction is confirmed and the DA Layer has answered with a complete
\* proof, the run reaches all five steps completed with the success message
\* set, unless the verifyPayment read fails to return; no user step is needed
\* (only program steps are fair).
C2_RunsToSuccess ==
    (hist.verifierAnswered /\ hist.txConfirmed /\ hist.daComplete)
        ~> ((AllCompleted /\ success # Null) \/ hist.verifyThrew)

C2_Witness ==
    /\ hist.verifierAnswered /\ hist.txConfirmed /\ hist.daComplete
    /\ hist.verifyReturned
    /\ AllCompleted
    /\ success # Null

\* C3: the retry wrapper starts at most `attempts` attempts, returns the body
\* of the first attempt that succeeds without starting another, throws
\* 'Failed to retrieve data and proofs after <attempts> attempts' exactly
\* when all attempts threw, and sends nothing when attempts <= 0.
C3_Retry ==
    LET c == retr[1] IN
    /\ c.started <= Max(c.attempts, 0)
    /\ c.threw <= c.started
    /\ c.pc = "returned" =>
        /\ c.last.kind = "ok"
        /\ c.result = c.last.body
        /\ c.started = c.threw + 1
    /\ c.pc = "thrown" =>
        /\ c.threw = Max(c.attempts, 0)
        /\ c.err = [msg |-> "Failed to retrieve data and proofs after n attempts",
                    n |-> c.attempts]
    /\ (c.pc \notin {"idle", "backoff"} /\ c.threw >= c.attempts) => c.pc = "thrown"
    /\ c.attempts <= 0 => ~c.requested /\ c.pc = "thrown"

C3_Witness ==
    /\ retr[1].pc = "returned"
    /\ retr[1].threw >= 1
    /\ retr[1].started < retr[1].attempts

\* C4: the first DA Layer request of an attempt follows the 30 s sleep and a
\* 10 s sleep, and every later request of the attempt follows its
\* predecessor by exactly one 10 s sleep.
C4_Sleeps ==
    LET c == retr[1] IN
    /\ c.pc \in {"finalize", "settle"} => c.reqs = 0
    /\ c.reqs = 1 => c.gap = <<30000, 10000>>
    /\ c.reqs = 2 => c.gap = <<10000>>

C4_Witness == retr[1].reqs = 2 /\ retr[1].pc = "fetch"

\* C5: verify-data is completed with 'Payment attestation verified
\* successfully', and the success message is set, only if verifyPayment
\* returned true.
C5_OnlyIfVerified ==
    (\/ /\ steps["verify-data"].status = "completed"
        /\ steps["verify-data"].msg = "Payment attestation verified successfully"
     \/ success # Null)
        => verificationResult = "true"

\* C6: once a run has stopped on a failed operation and the error is
\* reported, the failed step has status error and no step is in progress.
C6_NoStepLeftInProgress ==
    (/\ hist.opFailed
     /\ error # Null
     /\ exec.pc = "idle"
     /\ NoContRunning
     /\ ~EffectPending)
        => \A id \in StepIds : steps[id].status # "in_progress"

\* C7: when a run has ended, with the success message or with an error,
\* isLoading is false again.
C7_LoadingReset ==
    (/\ exec.pc = "idle"
     /\ NoContRunning
     /\ ~EffectPending
     /\ success # Null \/ hist.opFailed)
        => ~isLoading

\* C8 as stated: every requestAttestation transaction carries the amount
\* getRequestFee returned for the same abiEncodedRequest.
C8_FeeIsReadResult ==
    sentTx # NoTx =>
        /\ feeRead.abi = sentTx.abi
        /\ feeRead.result # FeeReadThrew
        /\ sentTx.value = feeRead.result

\* C8 as amended: the transaction carries the amount getRequestFee returned
\* for the same abiEncodedRequest, or 1 FLR when that read failed.
C8_FeeOrFallback ==
    sentTx # NoTx =>
        /\ feeRead.abi = sentTx.abi
        /\ feeRead.result # FeeReadThrew => sentTx.value = feeRead.result
        /\ feeRead.result = FeeReadThrew => sentTx.value = 1000000000

C8_Witness == sentTx # NoTx /\ feeRead.result = FeeReadThrew /\ wHash # Null

C9_IsHex64(v) ==
    /\ Len(v) = 64
    /\ \A i \in 1..Len(v) : v[i] \in {"0", "9", "a", "f", "A", "F"}

\* v is `input` without the whitespace around it
C9_Stripped(input, v) ==
    /\ \E l \in 0..Len(input) :
        /\ l + Len(v) <= Len(input)
        /\ \A i \in 1..Len(input) :
            IF i > l /\ i <= l + Len(v) THEN input[i] = v[i - l]
            ELSE input[i] \in {" ", "\t"}
    /\ v # <<>> => v[1] \notin {" ", "\t"} /\ v[Len(v)] \notin {" ", "\t"}

\* input is 64 hexadecimal characters, possibly with whitespace around them
C9_IsPaddedTxId(input) ==
    \E l \in 0..Len(input) :
        /\ l + 64 <= Len(input)
        /\ C9_IsHex64(SubSeq(input, l + 1, l + 64))
        /\ C9_Stripped(input, SubSeq(input, l + 1, l + 64))

\* C9: the verifier is only called with 64 hexadecimal characters, which are
\* the submitted field without the whitespace around it; a field that is
\* anything else is rejected and no request is made for it.
C9_TransactionId ==
    /\ verifierReq # NoReq =>
        /\ C9_IsHex64(verifierReq)
        /\ C9_Stripped(reqInput, verifierReq)
    /\ exec.pc # "idle" => reqInput = formInput
    /\ ~C9_IsPaddedTxId(formInput) => exec.pc = "idle"
    /\ (~C9_IsPaddedTxId(formInput) /\ formInput # <<>>) => formError

C9_Witness ==
    /\ exec.pc = "fetchResponse"
    /\ Len(reqInput) > Len(verifierReq)

C10_Digit(ch) == CHOOSE d \in 0..15 : HexDigits[d + 1] = ch
RECURSIVE C10_Value(_)
C10_Value(digits) ==
    IF digits = <<>> THEN 0
    ELSE 16 * C10_Value(SubSeq(digits, 1, Len(digits) - 1)) + C10_Digit(digits[Len(digits)])
C10_Width(code) == IF code < 16 THEN 1 ELSE IF code < 256 THEN 2 ELSE IF code < 4096 THEN 3 ELSE 4

\* out, read from position p on, spells the character codes of data in
\* order and then only the padding '0'
RECURSIVE C10_Spells(_, _, _)
C10_Spells(out, p, data) ==
    IF data = <<>> THEN \A i \in p..Len(out) : out[i] = "0"
    ELSE /\ p + C10_Width(Head(data)) - 1 <= Len(out)
         /\ C10_Value(SubSeq(out, p, p + C10_Width(Head(data)) - 1)) = Head(data)
         /\ C10_Spells(out, p + C10_Width(Head(data)), Tail(data))

RECURSIVE C10_TotalWidth(_)
C10_TotalWidth(data) ==
    IF data = <<>> THEN 0 ELSE C10_Width(Head(data)) + C10_TotalWidth(Tail(data))

\* C10 as stated: for every argument toHex returns '0x' and exactly 64
\* characters, the hexadecimal character codes in order padded with '0'.
C10_Exactly64 ==
    hexOut # NoHex =>
        /\ SubSeq(hexOut, 1, 2) = <<"0", "x">>
        /\ Len(hexOut) = 2 + 64
        /\ C10_Spells(hexOut, 3, hexIn)

\* C10 as amended: toHex returns '0x' and the hexadecimal character codes in
\* order, padded on the right with '0' to 64 characters when they are fewer,
\* and not shortened when they are more.
C10_AtLeast64 ==
    hexOut # NoHex =>
        /\ SubSeq(hexOut, 1, 2) = <<"0", "x">>
        /\ Len(hexOut) = 2 + Max(64, C10_TotalWidth(hexIn))
        /\ C10_Spells(hexOut, 3, hexIn)

C10_Witness == hexOut # NoHex /\ Len(hexOut) > 66

C11_First(text, n) == [i \in 1..(IF n < Len(text) THEN n ELSE Len(text)) |-> text[i]]
C11_Last(text, n) ==
    LET k == IF n < Len(text) THEN n ELSE Len(text)
    IN [i \in 1..k |-> text[Len(text) - k + i]]

\* C11: truncateString returns text unchanged when text is shorter than
\* minLength, and otherwise the first startLength characters of text, then
\* '...', then the last endLength characters of text.
C11_Truncated ==
    trunc.called =>
        IF Len(trunc.text) < trunc.minLength
        THEN trunc.out = trunc.text
        ELSE trunc.out = C11_First(trunc.text, trunc.startLength)
                           \o <<".", ".", ".">>
                           \o C11_Last(trunc.text, trunc.endLength)

\* the same, for calls with an endLength of at least one character and a
\* text whose length is not minLength
C11_TruncatedElsewhere ==
    (trunc.called /\ trunc.endLength >= 1 /\ Len(trunc.text) # trunc.minLength)
        => C11_Truncated

\* C12: when the clipboard write succeeds, setter(text) is called and
\* `timeout` ms later (2000 when not given) setter(null) is called, exactly
\* once; when the write fails the setter is never called; in both cases the
\* returned promise resolves.
C12_Calls ==
    /\ clip.pc \in {"idle", "writing", "failed"} => clip.calls = <<>>
    /\ clip.pc \in {"timer", "reset"} =>
        /\ Len(clip.calls) >= 1
        /\ ~clip.calls[1].isNull /\ clip.calls[1].value = clip.text
        /\ clip.now <= clip.calls[1].at + clip.timeout + 1
    /\ clip.pc = "timer" => Len(clip.calls) = 1
    /\ clip.pc = "reset" =>
        /\ Len(clip.calls) = 2
        /\ clip.calls[2].isNull
        /\ clip.calls[2].at = clip.calls[1].at + clip.timeout
    /\ (clip.pc # "idle" /\ ~clip.given) => clip.timeout = 2000
    /\ clip.pc \in {"timer", "reset", "failed"} => clip.resolved

C12_Clipboard ==
    /\ []C12_Calls
    /\ (clip.pc = "timer") ~> (clip.pc = "reset")
    /\ (clip.pc = "writing") ~> clip.resolved

C12_Witness ==
    /\ clip.pc = "reset"
    /\ ~clip.given
    /\ clip.calls[1].at > 0
    /\ clip.now > clip.calls[2].at
\* C13: every call of retrieveDataAndProofWithRetry returns a proof or
\* throws in the end, whatever the DA Layer answers, when every sleep ends
\* and every request is answered.
C13_Terminates ==
    (retr[1].pc # "idle") ~> (retr[1].pc \in {"returned", "thrown"})
\* C14: inside an attempt another request is sent exactly when the previous
\* answer was OK without a truthy response or without an array proof; an
\* answer that is not OK ends the attempt with 'DA Layer request failed',
\* counts as one failed attempt, and a 20 s sleep follows before the next
\* attempt or the final throw.
C14_Complete(b) == b.response /\ b.proof = "array"
C15_ReturnedProof ==
    \A s \in Slots :
        retr[s].pc = "returned" =>
            /\ retr[s].last.kind = "ok"
            /\ retr[s].result = retr[s].last.body
            /\ retr[s].result.response = TRUE
            /\ retr[s].result.proof = "array"

C15_Witness ==
    /\ retr[1].pc = "returned"
    /\ retr[1].reqs = 2
    /\ ~retr[1].result.fields
\* C16: wait-finalization, prepare-proof and verify-data stay pending until
\* the receipt of the submitted transaction is there; once it is there,
\* submit-request is completed and wait-finalization gets in progress
\* without a user step (only program steps are fair).
C16_PendingBeforeReceipt ==
    \A id \in {"wait-finalization", "prepare-proof", "verify-data"} :
        steps[id].status # "pending" => (rcpt = "success" /\ wHash # Null)

C16_AfterReceipt ==
    /\ []C16_PendingBeforeReceipt
    /\ (rcpt = "success" /\ steps["wait-finalization"].status = "pending")
         ~> (/\ steps["submit-request"].status = "completed"
             /\ steps["wait-finalization"].status = "in_progress")

C16_Witness ==
    /\ rcpt = "success"
    /\ ~EffectPending
    /\ steps["submit-request"].status = "completed"
    /\ steps["wait-finalization"].status = "in_progress"
    /\ steps["prepare-proof"].status = "pending"

\* C18: continueWorkflowAfterSubmission is started at most once for a
\* confirmed transaction, whatever dependency of the effect changes, so no
\* two continuations ever run side by side; the one that runs belongs to
\* the transaction whose receipt is there.
C18_StartedOnce ==
    /\ Cardinality({s \in Slots : cont[s].pc # "idle"}) <= 1
    /\ \A s \in Slots :
        cont[s].pc # "idle" =>
            /\ rcpt = "success"
            /\ cont[s].abi = sentTx.abi

C18_Witness ==
    /\ cont[1].pc = "done"
    /\ success # Null
    /\ ~EffectPending
    /\ cont[2].pc = "idle"

====
